---------------------------- MODULE Spec2Model ----------------------------
(***************************************************************************)
(* Model of the mouse-jiggler firmware core:                               *)
(*   - the motion-vector generator (Movement::generate_vector in           *)
(*     jiggle/movement.rs and generate_jiggle_vector in main.rs),          *)
(*   - the shared flag JIGGLE behind an async mutex (main.rs, and          *)
(*     State in jiggle/state.rs),                                          *)
(*   - the two futures in_fut (JiggleLoop) and led_fut (ToggleMonitor)     *)
(*     joined in main.                                                     *)
(*                                                                         *)
(* A u32 is kept as a pair <<hi, lo>> of 16-bit limbs, so that the 64-bit  *)
(* product seed * range is computed exactly.                               *)
(***************************************************************************)
EXTENDS Integers, Sequences, FiniteSets, TLC

VARIABLES
    JIGGLE,         \* the bool inside the mutex JIGGLE
    lock,           \* who holds the mutex: "none", "in_fut" or "led_fut"
    in_pc,          \* position of in_fut
    in_jiggle,      \* in_fut's local `jiggle`
    jiggle_vector,  \* in_fut's per-cycle buffer
    calls,          \* generator calls made in this iteration (the for counter)
    idx,            \* number of elements of jiggle_vector already iterated
    sent,           \* ReportSink: the x of every report submitted in this iteration
    write_result,   \* result of the last write_serialize: "none", "Ok" or "Err"
    warned,         \* whether warn!("Failed to send report") ran in this iteration
    led_pc,         \* position of led_fut
    led_jiggle,     \* led_fut's local `jiggle`
    led,            \* levels of the pins led_r, led_g, led_b
    flipped,        \* history: whether an odd number of toggles has completed
    missed,         \* history: a toggle to disabled completed in the current
                    \* active cycle, after the read that started the cycle
    before_toggle,  \* history: <<v>> with v the stored value just before the
                    \* last toggle, <<>> before any toggle
    g_cap,          \* generator harness: capacity N of the buffer
    g_vec,          \* generator harness: the buffer
    g_before,       \* generator harness: the buffer before the last call
    g_seed,         \* generator harness: the seed of the last call
    g_calls         \* generator harness: calls made on the buffer

sysvars == <<JIGGLE, lock, in_pc, in_jiggle, jiggle_vector, calls, idx, sent,
             write_result, warned, led_pc, led_jiggle, led, flipped, missed,
             before_toggle>>
genvars == <<g_cap, g_vec, g_before, g_seed, g_calls>>
vars == <<sysvars, genvars>>

---------------------------------------------------------------------------
(* Bounds of the model *)

\* largest buffer capacity N tried by the generator harness
MaxCap == 37
\* number of successive generator calls the harness makes on one buffer
MaxCalls == 3

---------------------------------------------------------------------------
(* Program constants *)

UPPER == 32
LOWER == 6
STEP == 6
upper_limit == 32
lower_limit == 6
step == 6
JIGGLE_VECTOR_SIZE == 32
reverberations == 2

---------------------------------------------------------------------------
(* 32-bit seeds as two 16-bit limbs *)

Limb == 2^16

U32_MAX == <<Limb - 1, Limb - 1>>

\* For every scaled value v in 0..26 the smallest and the largest seed that
\* maps to it, so 0, u32::MAX and both sides of every boundary are present.
Seeds ==
    { <<0, 0>>, <<2520, 40329>>, <<2520, 40330>>, <<5041, 15123>>,
      <<5041, 15124>>, <<7561, 55453>>, <<7561, 55454>>, <<10082, 30247>>,
      <<10082, 30248>>, <<12603, 5041>>, <<12603, 5042>>, <<15123, 45370>>,
      <<15123, 45371>>, <<17644, 20164>>, <<17644, 20165>>, <<20164, 60494>>,
      <<20164, 60495>>, <<22685, 35288>>, <<22685, 35289>>, <<25206, 10082>>,
      <<25206, 10083>>, <<27726, 50411>>, <<27726, 50412>>, <<30247, 25205>>,
      <<30247, 25206>>, <<32767, 65535>>, <<32768, 0>>, <<35288, 40329>>,
      <<35288, 40330>>, <<37809, 15123>>, <<37809, 15124>>, <<40329, 55452>>,
      <<40329, 55453>>, <<42850, 30246>>, <<42850, 30247>>, <<45371, 5040>>,
      <<45371, 5041>>, <<47891, 45370>>, <<47891, 45371>>, <<50412, 20164>>,
      <<50412, 20165>>, <<52932, 60493>>, <<52932, 60494>>, <<55453, 35287>>,
      <<55453, 35288>>, <<57974, 10081>>, <<57974, 10082>>, <<60494, 50411>>,
      <<60494, 50412>>, <<63015, 25205>>, <<63015, 25206>>, <<65535, 65534>>,
      <<65535, 65535>> }

\* The values RoscRng::next_u32 returns in the two-task model: the two ends
\* of the range (magnitudes 6 and 32), the largest seed short of u32::MAX
\* (31), and inner seeds of magnitudes 12, 19 and 25.
RngSeeds ==
    { <<0, 0>>, <<15123, 45371>>, <<32768, 0>>, <<47891, 45371>>,
      <<65535, 65534>>, <<65535, 65535>> }

---------------------------------------------------------------------------
(* Integer casts *)

\* `as u8`
AsU8(x) == x % 256

\* `as i8` of a value in 0..255
AsI8(x) == IF x >= 128 THEN x - 256 ELSE x

\* `-v` on i8 (wrapping at i8::MIN)
NegI8(v) == IF v = -128 THEN -128 ELSE -v

---------------------------------------------------------------------------
(* The generator *)

\* (seed as u64 * range as u64) / (u32::MAX as u64), on limbs:
\*   seed * range = a * 2^32 + b = a * (2^32 - 1) + (a + b),  a + b < 2 * (2^32 - 1)
ScaleDiv(seed, range) ==
    LET c    == seed[2] * range
        d    == seed[1] * range + (c \div Limb)
        a    == d \div Limb
        b_hi == d % Limb
        b_lo == c % Limb
    IN  IF b_hi = Limb - 1 /\ b_lo + a >= Limb - 1 THEN a + 1 ELSE a

\* seed as u64 * range as u64, bits 32 and up of the exact product
\* (the product is below 2^64 exactly when this is below 2^32)
ProductHigh(seed, range) ==
    (seed[1] * range + ((seed[2] * range) \div Limb)) \div Limb

\* let scaled: u32 = if seed == u32::MAX { range } else { ... }
Scaled(seed, range) ==
    IF seed = U32_MAX THEN range ELSE ScaleDiv(seed, range)

\* Magnitude without the offset LOWER
Magnitude_NoLower(seed, upper, lower) ==
    AsI8(AsU8(Scaled(seed, upper - lower)))

\* let x_u8 = (lower + scaled) as u8; let mut remaining: i8 = x_u8 as i8;
Magnitude(seed, upper, lower) ==
    AsI8(AsU8(lower + Scaled(seed, upper - lower)))

\* the forward loop: while remaining > 0 && !vec.is_full() { push; remaining -= to_push }
\* Forward pushing the magnitude as one step
RECURSIVE Forward_WholeMagnitude(_, _, _, _)
Forward_WholeMagnitude(vec, remaining, stp, N) ==
    IF remaining > 0 /\ Len(vec) < N
    THEN Append(vec, remaining)
    ELSE vec

\* Forward leaving the last free slot of the buffer unused
RECURSIVE Forward_StopsOneShort(_, _, _, _)
Forward_StopsOneShort(vec, remaining, stp, N) ==
    IF remaining > 0 /\ Len(vec) + 1 < N
    THEN LET to_push == IF remaining >= stp THEN stp ELSE remaining
         IN  Forward_StopsOneShort(Append(vec, to_push), remaining - to_push, stp, N)
    ELSE vec

\* Forward with the loop ending once less than a whole step remains
RECURSIVE Forward_DropsRemainder(_, _, _, _)
Forward_DropsRemainder(vec, remaining, stp, N) ==
    IF remaining >= stp /\ Len(vec) < N
    THEN Forward_DropsRemainder(Append(vec, stp), remaining - stp, stp, N)
    ELSE vec

RECURSIVE Forward(_, _, _, _)
Forward(vec, remaining, stp, N) ==
    IF remaining > 0 /\ Len(vec) < N
    THEN LET to_push == IF remaining >= stp THEN stp ELSE remaining
         IN  Forward(Append(vec, to_push), remaining - to_push, stp, N)
    ELSE vec

\* Mirror pushing the elements of the clone as they are
RECURSIVE Mirror_NoNegate(_, _, _, _)
Mirror_NoNegate(vec, clone, i, N) ==
    IF i = 0 \/ Len(vec) >= N
    THEN vec
    ELSE Mirror_NoNegate(Append(vec, clone[i]), clone, i - 1, N)

\* Mirror without the is_full test
RECURSIVE Mirror_IgnoresCapacity(_, _, _, _)
Mirror_IgnoresCapacity(vec, clone, i, N) ==
    IF i = 0
    THEN vec
    ELSE Mirror_IgnoresCapacity(Append(vec, NegI8(clone[i])), clone, i - 1, N)

\* Mirror with the mirror loop ending one element early
RECURSIVE Mirror_SkipsFirst(_, _, _, _)
Mirror_SkipsFirst(vec, clone, i, N) ==
    IF i <= 1 \/ Len(vec) >= N
    THEN vec
    ELSE Mirror_SkipsFirst(Append(vec, NegI8(clone[i])), clone, i - 1, N)

\* the mirror loop: for &v in clone.iter().rev() { if vec.is_full() { break } push(-v) }
\* i is the index in clone of the next element to negate (Len(clone) down to 1)
RECURSIVE Mirror(_, _, _, _)
Mirror(vec, clone, i, N) ==
    IF i = 0 \/ Len(vec) >= N
    THEN vec
    ELSE Mirror(Append(vec, NegI8(clone[i])), clone, i - 1, N)

\* Generate clearing the buffer before it writes
Generate_Overwrites(seed, vec, N, upper, lower, stp) ==
    LET fwd == Forward(<<>>, Magnitude(seed, upper, lower), stp, N)
    IN  Mirror(fwd, fwd, Len(fwd), N)

\* the body shared by both copies of the generator
Generate(seed, vec, N, upper, lower, stp) ==
    LET fwd == Forward(vec, Magnitude(seed, upper, lower), stp, N)
    IN  Mirror(fwd, fwd, Len(fwd), N)

\* Movement::new().generate_vector(seed, &mut vec) with vec: heapless::Vec<i8, N>
generate_vector(seed, vec, N) ==
    Generate(seed, vec, N, upper_limit, lower_limit, step)

\* generate_jiggle_vector(rng_value, &mut vec) with vec: heapless::Vec<i8, N>
generate_jiggle_vector(rng_value, vec, N) ==
    Generate(rng_value, vec, N, UPPER, LOWER, STEP)

---------------------------------------------------------------------------
(* Helpers for stating properties *)

RECURSIVE SumSeq(_)
SumSeq(s) == IF s = <<>> THEN 0 ELSE s[1] + SumSeq(Tail(s))

\* ceil(a / b) for b > 0
CeilDiv(a, b) == (a + b - 1) \div b

\* the elements a call appended: what follows the first n elements
Appended(s, n) == SubSeq(s, n + 1, Len(s))

\* s reversed and negated
NegRev(s) == [i \in 1..Len(s) |-> -s[Len(s) + 1 - i]]

\* the longest prefix of s whose elements are all positive; for the elements a
\* call appended these are its forward steps (the mirror starts with a
\* negative element)
RECURSIVE PositivePrefix(_)
PositivePrefix(s) ==
    IF s = <<>> \/ s[1] <= 0 THEN <<>> ELSE <<s[1]>> \o PositivePrefix(Tail(s))

---------------------------------------------------------------------------
(* State after construction *)

\* Output::new(PIN_18, High), Output::new(PIN_19, Low), Output::new(PIN_20, High)
LedInit == [r |-> "High", g |-> "Low", b |-> "High"]

\* Jiggle enabled: green
LedEnabled == [r |-> "High", g |-> "Low", b |-> "High"]

\* Jiggle disabled: off
LedDisabled == [r |-> "High", g |-> "High", b |-> "High"]

\* JIGGLE = Mutex::new(true); both futures at the top of their loops. The
\* locals `jiggle` of the two futures are declared without a value; FALSE
\* stands for "not yet assigned" (Rust rejects a read before the assignment).
SysInit ==
    /\ JIGGLE = TRUE
    /\ lock = "none"
    /\ in_pc = "lock"
    /\ in_jiggle = FALSE
    /\ jiggle_vector = <<>>
    /\ calls = 0
    /\ idx = 0
    /\ sent = <<>>
    /\ write_result = "none"
    /\ warned = FALSE
    /\ led_pc = "wait"
    /\ led_jiggle = FALSE
    /\ led = LedInit
    /\ flipped = FALSE
    /\ missed = FALSE
    /\ before_toggle = <<>>

\* the generator harness is not used by the two futures
GenIdle ==
    /\ g_cap = 0
    /\ g_vec = <<>>
    /\ g_before = <<>>
    /\ g_seed = <<0, 0>>
    /\ g_calls = 0

---------------------------------------------------------------------------
(* in_fut: the jiggle loop *)

\* let jiggle_unlocked = JIGGLE.lock().await;  resumes once the mutex is free
InLock ==
    /\ in_pc = "lock"
    /\ lock = "none"
    /\ lock' = "in_fut"
    /\ in_pc' = "read"
    /\ UNCHANGED <<JIGGLE, in_jiggle, jiggle_vector, calls, idx, sent,
                   write_result, warned, led_pc, led_jiggle, led, flipped, missed,
                   before_toggle, genvars>>

\* InRead taking the value out of the mutex and leaving enabled behind
InRead_Resets ==
    /\ in_pc = "read"
    /\ in_jiggle' = JIGGLE
    /\ JIGGLE' = TRUE
    /\ in_pc' = "unlock"
    /\ missed' = FALSE
    /\ UNCHANGED <<lock, jiggle_vector, calls, idx, sent,
                   write_result, warned, led_pc, led_jiggle, led, flipped,
                   before_toggle, genvars>>

\* jiggle = *jiggle_unlocked;
InRead ==
    /\ in_pc = "read"
    /\ in_jiggle' = JIGGLE
    /\ in_pc' = "unlock"
    /\ missed' = FALSE
    /\ UNCHANGED <<JIGGLE, lock, jiggle_vector, calls, idx, sent,
                   write_result, warned, led_pc, led_jiggle, led, flipped,
                   before_toggle, genvars>>

\* InRelease with the guard kept alive past the inner scope
InRelease_GuardKept == "in_fut"

\* the guard is dropped at the end of the inner scope
InRelease == "none"

\* Branch without the test of `jiggle`
Branch_Always(jiggle) == "generate"

\* if !jiggle { Timer::after_millis(1000).await; continue; }
Branch(jiggle) == IF ~jiggle THEN "poll" ELSE "generate"

\* end of the inner scope, then `if !jiggle`: either start the 1000 ms timer,
\* or create the empty jiggle_vector and enter the reverberation loop
InUnlock ==
    /\ in_pc = "unlock"
    /\ lock' = InRelease
    /\ in_pc' = Branch(in_jiggle)
    /\ jiggle_vector' = <<>>
    /\ calls' = 0
    /\ UNCHANGED <<JIGGLE, in_jiggle, idx, sent, write_result, warned,
                   led_pc, led_jiggle, led, flipped, missed,
                   before_toggle, genvars>>

\* the state in which the next iteration of `loop` starts; the per-iteration
\* record of the sink is started afresh
InLoopTop ==
    /\ in_pc' = "lock"
    /\ jiggle_vector' = <<>>
    /\ calls' = 0
    /\ idx' = 0
    /\ sent' = <<>>
    /\ write_result' = "none"
    /\ warned' = FALSE

\* InPoll resuming after the read: the flag is not read again
InPoll_SkipsRead ==
    /\ in_pc = "poll"
    /\ in_pc' = "unlock"
    /\ UNCHANGED <<JIGGLE, lock, in_jiggle, jiggle_vector, calls, idx, sent,
                   write_result, warned, led_pc, led_jiggle, led, flipped, missed,
                   before_toggle, genvars>>

\* Timer::after_millis(1000) fires; continue
InPoll ==
    /\ in_pc = "poll"
    /\ InLoopTop
    /\ UNCHANGED <<JIGGLE, lock, in_jiggle, led_pc, led_jiggle, led, flipped, missed,
                   before_toggle, genvars>>

\* one pass of `for _ in 0..reverberations`:
\* generate_jiggle_vector(rng.next_u32(), &mut jiggle_vector)
InGenerate(rng_value) ==
    /\ in_pc = "generate"
    /\ calls < reverberations
    /\ jiggle_vector' = generate_jiggle_vector(rng_value, jiggle_vector, JIGGLE_VECTOR_SIZE)
    /\ calls' = calls + 1
    /\ in_pc' = IF calls + 1 < reverberations THEN "generate" ELSE "report"
    /\ UNCHANGED <<JIGGLE, lock, in_jiggle, idx, sent, write_result, warned,
                   led_pc, led_jiggle, led, flipped, missed,
                   before_toggle, genvars>>

\* MouseReport { buttons: 0, x, y: 0, wheel: 0, pan: 0 }
MouseReport(x) == [buttons |-> 0, x |-> x, y |-> 0, wheel |-> 0, pan |-> 0]

\* InReport giving up the cycle once JIGGLE is disabled
InReport_ChecksFlag ==
    /\ in_pc = "report"
    /\ IF idx < Len(jiggle_vector) /\ JIGGLE
       THEN /\ sent' = Append(sent, MouseReport(jiggle_vector[idx + 1]))
            /\ idx' = idx + 1
            /\ in_pc' = "write"
       ELSE /\ in_pc' = IF JIGGLE THEN "sleep" ELSE "lock"
            /\ UNCHANGED <<sent, idx>>
    /\ UNCHANGED <<JIGGLE, lock, in_jiggle, jiggle_vector, calls, write_result,
                   warned, led_pc, led_jiggle, led, flipped, missed,
                   before_toggle, genvars>>

\* head of `for x in jiggle_vector`: take the next x and start
\* writer.write_serialize(&report), or leave the loop and start the delay
InReport ==
    /\ in_pc = "report"
    /\ IF idx < Len(jiggle_vector)
       THEN /\ sent' = Append(sent, MouseReport(jiggle_vector[idx + 1]))
            /\ idx' = idx + 1
            /\ in_pc' = "write"
       ELSE /\ in_pc' = "sleep"
            /\ UNCHANGED <<sent, idx>>
    /\ UNCHANGED <<JIGGLE, lock, in_jiggle, jiggle_vector, calls, write_result,
                   warned, led_pc, led_jiggle, led, flipped, missed,
                   before_toggle, genvars>>

\* InWriteDone leaving the for loop on Err
InWriteDone_AbortOnErr(result) ==
    /\ in_pc = "write"
    /\ write_result' = result
    /\ warned' = (warned \/ result = "Err")
    /\ in_pc' = IF result = "Err" THEN "sleep" ELSE "report"
    /\ UNCHANGED <<JIGGLE, lock, in_jiggle, jiggle_vector, calls, idx, sent,
                   led_pc, led_jiggle, led, flipped, missed,
                   before_toggle, genvars>>

\* write_serialize completes with Ok(()) or Err(e); Err is logged with warn!
InWriteDone(result) ==
    /\ in_pc = "write"
    /\ write_result' = result
    /\ warned' = (warned \/ result = "Err")
    /\ in_pc' = "report"
    /\ UNCHANGED <<JIGGLE, lock, in_jiggle, jiggle_vector, calls, idx, sent,
                   led_pc, led_jiggle, led, flipped, missed,
                   before_toggle, genvars>>

\* Timer::after(duration) fires; next iteration
InSleep ==
    /\ in_pc = "sleep"
    /\ InLoopTop
    /\ UNCHANGED <<JIGGLE, lock, in_jiggle, led_pc, led_jiggle, led, flipped, missed,
                   before_toggle, genvars>>

in_fut ==
    \/ InLock
    \/ InRead
    \/ InUnlock
    \/ InPoll
    \/ \E rng_value \in RngSeeds : InGenerate(rng_value)
    \/ InReport
    \/ \E result \in {"Ok", "Err"} : InWriteDone(result)
    \/ InSleep

---------------------------------------------------------------------------
(* led_fut: the button and the LED *)

\* button.wait_for_falling_edge().await returns: the BOOT button was pressed
LedEdge ==
    /\ led_pc = "wait"
    /\ led_pc' = "lock"
    /\ UNCHANGED <<JIGGLE, lock, in_pc, in_jiggle, jiggle_vector, calls, idx, sent,
                   write_result, warned, led_jiggle, led, flipped, missed,
                   before_toggle, genvars>>

\* let mut jiggle_unlocked = JIGGLE.lock().await;
LedLock ==
    /\ led_pc = "lock"
    /\ lock = "none"
    /\ lock' = "led_fut"
    /\ led_pc' = "toggle"
    /\ UNCHANGED <<JIGGLE, in_pc, in_jiggle, jiggle_vector, calls, idx, sent,
                   write_result, warned, led_jiggle, led, flipped, missed,
                   before_toggle, genvars>>

\* the positions of in_fut inside an active cycle, from the creation of
\* jiggle_vector to the end of the inter-cycle delay
ActiveCycle == {"generate", "report", "write", "sleep"}

\* Flip storing enabled instead of the negation
Flip_Enable(value) == TRUE

\* Flip storing disabled instead of the negation
Flip_Disable(value) == FALSE

\* *jiggle_unlocked = !(*jiggle_unlocked);
Flip(value) == ~value

\* *jiggle_unlocked = !(*jiggle_unlocked); jiggle = *jiggle_unlocked;
LedToggle ==
    /\ led_pc = "toggle"
    /\ JIGGLE' = Flip(JIGGLE)
    /\ led_jiggle' = JIGGLE'
    /\ flipped' = ~flipped
    /\ missed' = (missed \/ (in_pc \in ActiveCycle /\ ~JIGGLE'))
    /\ before_toggle' = <<JIGGLE>>
    /\ led_pc' = "unlock"
    /\ UNCHANGED <<lock, in_pc, in_jiggle, jiggle_vector, calls, idx, sent,
                   write_result, warned, led, genvars>>

\* LedUnlock with the guard kept alive past the inner scope
LedUnlock_GuardKept ==
    /\ led_pc = "unlock"
    /\ lock' = lock
    /\ led_pc' = "led"
    /\ UNCHANGED <<JIGGLE, in_pc, in_jiggle, jiggle_vector, calls, idx, sent,
                   write_result, warned, led_jiggle, led, flipped, missed,
                   before_toggle, genvars>>

\* the guard is dropped at the end of the inner scope
LedUnlock ==
    /\ led_pc = "unlock"
    /\ lock' = "none"
    /\ led_pc' = "led"
    /\ UNCHANGED <<JIGGLE, in_pc, in_jiggle, jiggle_vector, calls, idx, sent,
                   write_result, warned, led_jiggle, led, flipped, missed,
                   before_toggle, genvars>>

\* LedLevels with the two branches exchanged
LedLevels_Inverted(jiggle) == IF jiggle THEN LedDisabled ELSE LedEnabled

\* if jiggle { green } else { off }
LedLevels(jiggle) == IF jiggle THEN LedEnabled ELSE LedDisabled

\* Update LED color based on state, then back to the top of the loop
LedUpdate ==
    /\ led_pc = "led"
    /\ led' = LedLevels(led_jiggle)
    /\ led_pc' = "wait"
    /\ UNCHANGED <<JIGGLE, lock, in_pc, in_jiggle, jiggle_vector, calls, idx, sent,
                   write_result, warned, led_jiggle, flipped, missed,
                   before_toggle, genvars>>

led_fut ==
    \/ LedEdge
    \/ LedLock
    \/ LedToggle
    \/ LedUnlock
    \/ LedUpdate

---------------------------------------------------------------------------
(* join(in_fut, led_fut) *)

Init == SysInit /\ GenIdle

Next == in_fut \/ led_fut

Spec == Init /\ [][Next]_vars

\* Scheduling: the executor polls every woken future, timers fire and report
\* submissions complete, so a future that can run does run; a future waiting
\* for the mutex is woken at every release. The button is pressed or not as
\* the user likes: LedEdge has no fairness.
LedStep == LedLock \/ LedToggle \/ LedUnlock \/ LedUpdate

Fairness ==
    /\ WF_vars(in_fut)
    /\ SF_vars(InLock)
    /\ WF_vars(LedStep)
    /\ SF_vars(LedLock)

SpecFair == Spec /\ Fairness

\* in_fut while the button is left alone: the state stays enabled, every
\* iteration is an active cycle, and rng.next_u32() ranges over all of Seeds
JiggleCycle ==
    \/ InLock
    \/ InRead
    \/ InUnlock
    \/ \E rng_value \in Seeds : InGenerate(rng_value)
    \/ InReport
    \/ \E result \in {"Ok", "Err"} : InWriteDone(result)
    \/ InSleep

SpecCycle == Init /\ [][JiggleCycle]_vars

\* the x of the reports submitted in this iteration, in submission order
SentX == [i \in 1..Len(sent) |-> sent[i].x]

---------------------------------------------------------------------------
(* Generator harness: successive calls against one buffer of capacity g_cap *)

GenInit ==
    /\ SysInit
    /\ g_cap \in 0..MaxCap
    /\ g_vec = <<>>
    /\ g_before = <<>>
    /\ g_seed = <<0, 0>>
    /\ g_calls = 0

CallMovement(seed) ==
    /\ g_calls < MaxCalls
    /\ g_vec' = generate_vector(seed, g_vec, g_cap)
    /\ g_before' = g_vec
    /\ g_seed' = seed
    /\ g_calls' = g_calls + 1
    /\ UNCHANGED <<g_cap, sysvars>>

CallJiggle(seed) ==
    /\ g_calls < MaxCalls
    /\ g_vec' = generate_jiggle_vector(seed, g_vec, g_cap)
    /\ g_before' = g_vec
    /\ g_seed' = seed
    /\ g_calls' = g_calls + 1
    /\ UNCHANGED <<g_cap, sysvars>>

\* the seeds tried for the next call: every boundary seed for a call on an
\* empty buffer and for the calls of one cycle of in_fut (capacity 32, two
\* calls); the seeds of RngSeeds (magnitudes 6, 12, 19, 25, 31, 32) for any
\* other later call
CallSeeds ==
    IF g_vec = <<>> \/ (g_cap = JIGGLE_VECTOR_SIZE /\ g_calls < reverberations)
    THEN Seeds
    ELSE RngSeeds

GenNext ==
    \/ \E seed \in CallSeeds : CallMovement(seed)
    \/ \E seed \in CallSeeds : CallJiggle(seed)

SpecGen == GenInit /\ [][GenNext]_vars


---------------------------------------------------------------------------
(* Properties of the generator, under SpecGen *)

\* the forward steps of one call that has room for all of them:
\* the magnitude of the seed in chunks of step
ForwardSteps(seed) ==
    Forward(<<>>, Magnitude(seed, upper_limit, lower_limit), step, upper_limit)

\* C1 (as claimed): in every active cycle of in_fut the x of all reports
\* streamed in the cycle sum to zero when the inter-cycle delay begins.
C1_CycleSumsToZero ==
    in_pc = "sleep" => SumSeq(SentX) = 0

\* C2: one call into an empty buffer of capacity
\* N >= 2 * ceil((upper - lower) / step) + 2 leaves a sequence that sums to 0.
C2_SufficientCapacitySumsToZero ==
    (/\ g_calls = 1
     /\ g_cap >= 2 * CeilDiv(upper_limit - lower_limit, step) + 2)
        => SumSeq(g_vec) = 0

\* C2 witness: u32::MAX into a buffer of exactly the smallest sufficient
\* capacity, which the call fills
C2_Witness ==
    /\ g_calls = 1
    /\ g_cap = 2 * CeilDiv(upper_limit - lower_limit, step) + 2
    /\ g_seed = U32_MAX
    /\ Len(g_vec) = g_cap
    /\ SumSeq(g_vec) = 0

\* C3 (as claimed): a call with enough free capacity, a second call included,
\* appends its own forward steps f1..fk followed by exactly -fk..-f1 and
\* nothing else; seeds [0, u32::MAX] into capacity 32 give 2 + 12 elements.
C3_CallMirrorsOwnForwardSteps ==
    /\ (/\ g_calls >= 1
        /\ g_cap - Len(g_before) >= 2 * Len(ForwardSteps(g_seed)))
           => Appended(g_vec, Len(g_before))
                = ForwardSteps(g_seed) \o NegRev(ForwardSteps(g_seed))
    /\ (/\ g_calls = 2
        /\ g_cap = JIGGLE_VECTOR_SIZE
        /\ g_before = generate_jiggle_vector(<<0, 0>>, <<>>, g_cap)
        /\ g_seed = U32_MAX)
           => Len(g_vec) = 2 + 12

---------------------------------------------------------------------------
(* Properties of the two futures, under Spec and SpecFair *)

\* positions of in_fut inside an active cycle
InCycle == in_pc \in ActiveCycle

\* the step is in_fut's read of JIGGLE / led_fut's toggle / a report submission
ReadStep == in_pc = "read" /\ in_pc' = "unlock"
ToggleStep == led_pc = "toggle" /\ led_pc' = "unlock"
SubmitStep == Len(sent') > Len(sent)

\* C4: reads and toggles are linearized: a read returns the initial value
\* true flipped once per toggle completed before it (true before any toggle)
\* and it is the stored value; a toggle returns the negation of the value
\* stored immediately before it, which it stores.
C4_Linearized ==
    [][/\ ReadStep => /\ in_jiggle' = (IF flipped THEN FALSE ELSE TRUE)
                      /\ in_jiggle' = JIGGLE
       /\ ToggleStep => /\ led_jiggle' = ~JIGGLE
                        /\ JIGGLE' = ~JIGGLE]_vars

\* C4 witness: a read that followed an odd number of toggles returned false,
\* while led_fut is already asking for the mutex again
C4_Witness ==
    /\ in_pc = "unlock"
    /\ flipped
    /\ in_jiggle = FALSE
    /\ led_pc = "lock"

\* C5: a future suspended on a timer, on a report submission or on the
\* falling-edge wait does not hold the mutex; the mutex is held exactly
\* during the read or the flip-and-copy, by at most one future.
C5_LockNotHeldAcrossAwait ==
    /\ in_pc \in {"poll", "sleep", "write"} => lock # "in_fut"
    /\ led_pc = "wait" => lock # "led_fut"
    /\ lock = "in_fut" <=> in_pc \in {"read", "unlock"}
    /\ lock = "led_fut" <=> led_pc \in {"toggle", "unlock"}
    /\ ~(in_pc \in {"read", "unlock"} /\ led_pc \in {"toggle", "unlock"})

\* C5 witness: in_fut is suspended on a report submission while led_fut
\* holds the mutex
C5_Witness ==
    /\ in_pc = "write"
    /\ lock = "led_fut"

\* C6: in every reachable state a future can take a step (no deadlock, no
\* termination), and every request for the mutex is eventually granted.
C6_NoDeadlockLockGranted ==
    /\ [](ENABLED (in_fut \/ LedStep))
    /\ (in_pc = "lock") ~> (lock = "in_fut")
    /\ (led_pc = "lock") ~> (lock = "led_fut")

\* C6 witness: in_fut asks for the mutex while led_fut holds it
C6_Witness ==
    /\ in_pc = "lock"
    /\ lock = "led_fut"

\* C7: after an edge led_fut toggles exactly once and then sets the LED from
\* the value the toggle returned; so whenever it waits for an edge, the first
\* wait included, the green LED is lit iff JIGGLE is enabled.
C7_IndicatorMatchesState ==
    /\ led_pc = "wait" => /\ JIGGLE => led = LedEnabled
                          /\ ~JIGGLE => led = LedDisabled
    /\ led_pc \in {"lock", "toggle"} => (led = LedEnabled <=> JIGGLE)
    /\ led_pc \in {"unlock", "led"} => /\ led_jiggle = JIGGLE
                                       /\ led = LedEnabled <=> ~JIGGLE

\* C7 witness: after a toggle to disabled the LED is off and led_fut waits
C7_Witness ==
    /\ led_pc = "wait"
    /\ JIGGLE = FALSE
    /\ led = LedDisabled
    /\ flipped

\* C8: reports are submitted only in an iteration whose read returned
\* enabled; an iteration whose read returned disabled makes no generator
\* call, submits no report, waits one poll interval and reads again.
C8_DisabledIterationIsIdle ==
    /\ [](in_pc = "poll" => ~in_jiggle /\ calls = 0 /\ sent = <<>>)
    /\ [](InCycle => in_jiggle)
    /\ [](in_pc \in {"lock", "read"} => calls = 0 /\ sent = <<>>)
    /\ [][/\ SubmitStep => in_jiggle /\ in_jiggle'
          /\ calls' > calls => in_jiggle /\ in_jiggle'
          /\ (in_pc = "unlock" /\ ~in_jiggle /\ in_pc' # in_pc) => in_pc' = "poll"
          /\ (in_pc = "poll" /\ in_pc' # in_pc) => in_pc' = "lock"
          /\ (in_pc = "lock" /\ in_pc' # in_pc) => in_pc' = "read"]_vars

\* C8 witness: in_fut is in the poll interval after reading disabled
C8_Witness ==
    /\ in_pc = "poll"
    /\ in_jiggle = FALSE
    /\ flipped

\* C9: every step of the composite sequence is submitted exactly once and in
\* order whatever submissions fail: a failure is not retried, skips and
\* reorders nothing and does not end the cycle; the delay and a new read follow.
C9_FailuresDoNotDisturbCycle ==
    /\ [](in_pc \in {"report", "write", "sleep"}
            => /\ idx <= Len(jiggle_vector)
               /\ SentX = SubSeq(jiggle_vector, 1, idx)
               /\ \A i \in 1..Len(sent) : sent[i] = MouseReport(jiggle_vector[i]))
    /\ [](in_pc = "sleep" => SentX = jiggle_vector)
    /\ [][/\ (in_pc = "write" /\ in_pc' # in_pc)
                => in_pc' = "report" /\ sent' = sent /\ idx' = idx
          /\ (in_pc = "report" /\ idx < Len(jiggle_vector) /\ in_pc' # in_pc)
                => in_pc' = "write" /\ sent' = Append(sent, MouseReport(jiggle_vector[idx + 1]))
          /\ (in_pc = "sleep" /\ in_pc' # in_pc) => in_pc' = "lock"
          /\ (in_pc = "lock" /\ in_pc' # in_pc) => in_pc' = "read"
          /\ InCycle => jiggle_vector' = jiggle_vector \/ in_pc \in {"generate", "sleep"}]_vars

\* C9 witness: the delay has begun after a full 32-report cycle in which
\* submissions failed, the last one among them
C9_Witness ==
    /\ in_pc = "sleep"
    /\ warned
    /\ write_result = "Err"
    /\ Len(sent) = JIGGLE_VECTOR_SIZE
    /\ SentX = jiggle_vector

\* C10 (as claimed): after a toggle to disabled that followed the read of
\* an active cycle, the first read after the cycle's delay returns disabled.
C10_NextReadReturnsDisabled ==
    [][(ReadStep /\ missed) => ~in_jiggle']_vars

\* C10 (amended): a toggle to disabled after the read of an active cycle
\* does not stop the cycle: the remaining reports are submitted and the delay
\* is reached and left only by its timer; the first read after the delay
\* returns disabled unless the state was toggled back to enabled before it;
\* an iteration that read disabled submits nothing, so a report submitted
\* while the state is disabled belongs to a cycle whose read came before
\* the toggle.
C10_ToggleSeenAfterCycle ==
    /\ (InCycle /\ missed) ~> (in_pc = "sleep" /\ missed /\ SentX = jiggle_vector)
    /\ [][/\ (InCycle /\ in_pc' = "lock") => in_pc = "sleep"
          /\ (ReadStep /\ ~JIGGLE) => ~in_jiggle'
          /\ (in_pc = "unlock" /\ ~in_jiggle /\ in_pc' # in_pc) => in_pc' = "poll"
          /\ (SubmitStep /\ ~JIGGLE) => (in_jiggle /\ InCycle /\ missed)]_vars
    /\ [](in_pc = "poll" => sent = <<>>)

\* C10 witness: the whole sequence went out and the delay runs although the
\* state was toggled to disabled during the cycle
C10_Witness ==
    /\ in_pc = "sleep"
    /\ in_jiggle
    /\ missed
    /\ JIGGLE = FALSE
    /\ Len(sent) > 0
    /\ SentX = jiggle_vector

\* C11: if the state is enabled and is not toggled again, in_fut starts an
\* active cycle and submits a report (again and again); while disabled it
\* reads the state after every single poll interval, and a read made once
\* the state is enabled returns enabled and starts the cycle.
C11_ReenableResumesJiggle ==
    /\ JIGGLE ~> (in_pc = "write" \/ ~JIGGLE)
    /\ <>[]JIGGLE => []<>(in_pc = "write" /\ in_jiggle)
    /\ [][/\ (in_pc = "poll" /\ in_pc' # in_pc) => in_pc' = "lock"
          /\ (in_pc = "lock" /\ in_pc' # in_pc) => in_pc' = "read"
          /\ (ReadStep /\ JIGGLE) => in_jiggle'
          /\ (in_pc = "unlock" /\ in_jiggle /\ in_pc' # in_pc) => in_pc' = "generate"]_vars

\* C11 witness: a report is being submitted after a toggle back to enabled
\* (led_jiggle is true only once a toggle has returned enabled)
C11_Witness ==
    /\ in_pc = "write"
    /\ JIGGLE
    /\ led_jiggle
    /\ led_pc = "wait"

---------------------------------------------------------------------------
(* Further properties of the generator, under SpecGen *)

\* the forward steps the last call appended
ForwardAppended == PositivePrefix(Appended(g_vec, Len(g_before)))

\* C12: with the defaults and an empty buffer whose capacity holds all
\* forward steps, the forward steps of generate(u32::MAX, N) total exactly
\* upper_bound = 32 and those of generate(0, N) total exactly lower_bound = 6.
C12_EndSeedsHitBounds ==
    /\ (/\ g_calls = 1
        /\ g_seed = U32_MAX
        /\ g_cap >= CeilDiv(upper_limit, step))
           => SumSeq(ForwardAppended) = 32
    /\ (/\ g_calls = 1
        /\ g_seed = <<0, 0>>
        /\ g_cap >= CeilDiv(lower_limit, step))
           => SumSeq(ForwardAppended) = 6

\* C12 witness: u32::MAX into a buffer that holds exactly the six forward
\* steps, so that no mirror element follows
C12_Witness ==
    /\ g_calls = 1
    /\ g_seed = U32_MAX
    /\ g_cap = 6
    /\ g_vec = <<6, 6, 6, 6, 6, 2>>

\* the magnitude Movement::generate_vector maps the last seed to
M == Magnitude(g_seed, upper_limit, lower_limit)

\* x is the smaller of a and b
Min(a, b) == IF a <= b THEN a ELSE b

\* C13: for every seed the mapped magnitude M lies in
\* [lower_bound, upper_bound], and the forward steps written into an empty
\* buffer of sufficient capacity are M chunked by step_size: every forward
\* step is step_size except possibly the last, which is in 1..step_size,
\* their sum is M and the first is min(step_size, M).
C13_ForwardStepsChunkMagnitude ==
    g_calls >= 1 =>
        /\ M >= lower_limit
        /\ M <= upper_limit
        /\ (g_calls = 1 /\ g_cap >= CeilDiv(M, step)) =>
              LET f == ForwardAppended
              IN  /\ Len(f) = CeilDiv(M, step)
                  /\ \A i \in 1..(Len(f) - 1) : f[i] = step
                  /\ f[Len(f)] \in 1..step
                  /\ SumSeq(f) = M
                  /\ f[1] = Min(step, M)

\* C13 witness: a seed mapped to 31, whose last forward step is a remainder
\* of 1, in a buffer that also holds the whole mirror
C13_Witness ==
    /\ g_calls = 1
    /\ g_cap = 12
    /\ M = 31
    /\ g_vec = <<6, 6, 6, 6, 6, 1, -1, -6, -6, -6, -6, -6>>

\* C14: for every seed, generate into an empty buffer of capacity 1 leaves
\* exactly one element, strictly positive (the first forward step), and no
\* mirrored element.
C14_CapacityOneKeepsOneForwardStep ==
    (g_calls = 1 /\ g_cap = 1) =>
        /\ Len(g_vec) = 1
        /\ g_vec[1] > 0
        /\ g_vec[1] = Min(step, M)
        /\ \A i \in 1..Len(g_vec) : g_vec[i] >= 0

\* C14 witness: a magnitude above one step, so that forward steps and the
\* whole mirror are cut off
C14_Witness ==
    /\ g_calls = 1
    /\ g_cap = 1
    /\ M = 32
    /\ g_vec = <<6>>

---------------------------------------------------------------------------
(* Further properties of the toggle state, under Spec *)

\* C15: two toggles with no other toggle between them (reads may interleave)
\* leave the stored value equal to its value before the first, and the second
\* toggle returns that value; after n completed toggles the stored value is
\* the initial value true exactly when n is even.
C15_DoubleToggleRestores ==
    /\ [](JIGGLE = ~flipped)
    /\ [][(ToggleStep /\ before_toggle # <<>>) =>
             /\ before_toggle[1] = ~JIGGLE
             /\ JIGGLE' = before_toggle[1]
             /\ led_jiggle' = before_toggle[1]]_vars

\* C15 witness: the second toggle has just returned the original value true,
\* after a read between the two toggles saw the intermediate value
C15_Witness ==
    /\ led_pc = "unlock"
    /\ before_toggle = <<FALSE>>
    /\ ~flipped
    /\ JIGGLE
    /\ led_jiggle
    /\ ~in_jiggle
    /\ in_pc = "poll"

\* C16: no step of in_fut changes the stored value, a read in particular
\* leaves it unchanged; the value changes only in led_fut's toggle step, and
\* there exactly once per toggle.
C16_OnlyToggleWrites ==
    [][/\ (in_pc' # in_pc) => JIGGLE' = JIGGLE
       /\ ReadStep => (JIGGLE' = JIGGLE /\ in_jiggle' = JIGGLE)
       /\ (JIGGLE' # JIGGLE) => ToggleStep
       /\ ToggleStep => JIGGLE' # JIGGLE
       /\ (flipped' # flipped) <=> (JIGGLE' # JIGGLE)]_vars

\* C16 witness: in_fut has read the value disabled that the toggle stored and
\* is waiting out the poll interval, the value still being stored
C16_Witness ==
    /\ in_pc = "poll"
    /\ ~in_jiggle
    /\ ~JIGGLE
    /\ flipped
    /\ before_toggle = <<TRUE>>
    /\ led_pc = "wait"

---------------------------------------------------------------------------
(* Appending and truncation, under SpecGen *)

\* C17 (as claimed): every call on a buffer of capacity >= 1, second and
\* later calls on the same buffer included, appends at least one forward
\* step, and every forward step it appends is strictly positive.
C17_EveryCallAppendsForwardStep ==
    (g_calls >= 1 /\ g_cap >= 1) =>
        /\ Len(g_vec) > Len(g_before)
        /\ Len(ForwardAppended) >= 1
        /\ \A i \in 1..Len(ForwardAppended) : ForwardAppended[i] > 0

\* C17 (amended): every call on a buffer with at least one free slot, second
\* and later calls included, appends at least one forward step: it appends
\* the forward steps of its seed as far as the free slots reach, and each of
\* them is strictly positive.
C17_CallWithRoomAppendsForwardStep ==
    (g_calls >= 1 /\ Len(g_before) < g_cap) =>
        LET free == g_cap - Len(g_before)
            f    == ForwardSteps(g_seed)
            n    == Min(free, Len(f))
        IN  /\ Len(g_vec) >= Len(g_before) + n
            /\ n >= 1
            /\ ForwardAppended = SubSeq(f, 1, n)
            /\ \A i \in 1..n : g_vec[Len(g_before) + i] > 0

\* C17 witness: a second call that found a single free slot and put its first
\* forward step into it
C17_Witness ==
    /\ g_calls = 2
    /\ g_cap = 3
    /\ g_before = <<6, -6>>
    /\ g_vec = <<6, -6, 6>>

\* C18: after any sequence of calls on one buffer of capacity N the length
\* never exceeds N, and each call leaves the elements already present
\* unchanged and in place (it only appends); a call on a full buffer changes
\* nothing.
C18_AppendOnlyWithinCapacity ==
    /\ Len(g_vec) <= g_cap
    /\ Len(g_before) <= Len(g_vec)
    /\ SubSeq(g_vec, 1, Len(g_before)) = g_before
    /\ (g_calls >= 1 /\ Len(g_before) = g_cap) => g_vec = g_before

\* C18 witness: the third call found the buffer full after two calls and
\* left it as it was
C18_Witness ==
    /\ g_calls = 3
    /\ g_cap = 5
    /\ g_before = <<6, -6, 6, 6, 6>>
    /\ g_vec = g_before

\* C19: for every seed no arithmetic step of the generator overflows or
\* loses value: the product seed * range fits 64 bits, the scaled value is in
\* [0, range], the casts to u8 and then to i8 preserve the magnitude, and
\* every element pushed (forward steps and negated elements, mirrored earlier
\* content included) lies in [-step_size, step_size], so that negating it
\* does not overflow i8 and the x of its report is a valid signed 8-bit
\* displacement.
C19_NoOverflow ==
    LET range  == upper_limit - lower_limit
        scaled == Scaled(g_seed, range)
    IN  /\ ProductHigh(g_seed, range) \div Limb < Limb
        /\ range \in 0..255
        /\ scaled \in 0..range
        /\ lower_limit + scaled \in 0..127
        /\ AsU8(lower_limit + scaled) = lower_limit + scaled
        /\ M = lower_limit + scaled
        /\ \A i \in 1..Len(g_vec) :
              /\ g_vec[i] \in (0 - step)..step
              /\ NegI8(g_vec[i]) = 0 - g_vec[i]
              /\ MouseReport(g_vec[i]).x = g_vec[i]
              /\ MouseReport(g_vec[i]).x \in (0 - 128)..127

\* C19 witness: two calls with u32::MAX into capacity 32; the second mirror
\* starts with the negated remainder and goes on to negate the first call's
\* negative elements
C19_Witness ==
    /\ g_calls = 2
    /\ g_cap = 32
    /\ g_seed = U32_MAX
    /\ Len(g_before) = 12
    /\ Len(g_vec) = 32
    /\ g_vec[19] = 0 - 2
    /\ g_vec[25] = 6

---------------------------------------------------------------------------
(* The cursor during an active cycle, under SpecCycle *)

\* C20: at every point of an active cycle (two generator calls into a fresh
\* buffer of capacity 32, any pair of seeds) the running sum of the x
\* submitted so far in the cycle lies in [0, 32], also when the buffer is
\* truncated.
C20_CursorStaysWithinUpper ==
    /\ SumSeq(SentX) >= 0
    /\ SumSeq(SentX) <= UPPER
    /\ UPPER = 32
    /\ InCycle => SentX = SubSeq(jiggle_vector, 1, idx)
    /\ Len(jiggle_vector) <= JIGGLE_VECTOR_SIZE

\* C20 witness: both seeds u32::MAX, the buffer is truncated at 32 elements
\* and the cycle ends with the cursor 24 units from its start
C20_Witness ==
    /\ in_pc = "sleep"
    /\ calls = reverberations
    /\ Len(sent) = 32
    /\ SumSeq(SentX) = 24

===========================================================================
